---- MODULE Spec2Model ----
(***************************************************************************)
(* autonotes: the document reconstructor (TextFormatter.save_as_docx), the *)
(* reasoning-trace cleanup of TextFormatter.format_with_llm, the lazily    *)
(* loaded ModelManager singleton and the /process request handler.         *)
(* Text is a sequence of one-character strings.                            *)
(***************************************************************************)
EXTENDS Integers, Sequences, FiniteSets, TLC

VARIABLES
    \* ---- TextFormatter.save_as_docx
    text,        \* the text argument
    paragraphs,  \* text.split('\n')
    li,          \* number of lines the for loop has consumed
    doc,         \* the body of the Document: one element per add_paragraph/add_heading
    pcD,         \* "start" | "loop" | "save" | "returned" | "raised"
    outFile,     \* what is at output_path: "absent" | "partial" | "complete"
    \* ---- TextFormatter.format_with_llm, lines 83-100
    formatted_text, \* the decoded text, rewritten in place
    pcF,            \* "decoded" | "paired" | "lone" | "strip" | "returned"
    \* ---- ModelManager.get_instance, one call per thread
    instance,    \* cls._instance: 0 is None, n > 0 the n-th loaded model
    loads,       \* number of _load_model calls so far
    pcM,         \* per thread: "check" | "load" | "assign" | "ret" | "done"
    loaded,      \* per thread: the value _load_model returned to it
    got,         \* per thread: the value get_instance returned
    \* ---- app.process
    req,         \* the request: markdown_content, preview, output_format, filename
    pcP,         \* position in the handler
    tmpDir,      \* "none" | "exists" | "removed" | "scheduled"
    released,    \* number of shutil.rmtree calls made or scheduled on the directory
    responses,   \* the responses the handler returned, in order
    failed,      \* whether some step of the workflow raised
    escaped      \* whether an exception left the handler

docxVars == <<text, paragraphs, li, doc, pcD, outFile>>
fmtVars  == <<formatted_text, pcF>>
mmVars   == <<instance, loads, pcM, loaded, got>>
procVars == <<req, pcP, tmpDir, released, responses, failed, escaped>>
vars     == <<docxVars, fmtVars, mmVars, procVars>>

----------------------------------------------------------------------------
\* Bounds of the model.

\* longest text drawn exhaustively over Alphabet
MaxLen == 4
\* most leading '#' of a generated heading line (the clamp is at 9)
MaxHashes == 11
\* longest bold span / remainder of a generated bullet line
MaxWord == 2
\* most fragments of a generated paragraph line
MaxFrags == 3

----------------------------------------------------------------------------
\* Python str primitives on sequences of characters.

\* str.strip()/rstrip() without argument strip these
Whitespace == {" ", "\t", "\n", "\r"}

\* s.lstrip(chars): drop the longest prefix made of characters of cs
LStrip(s, cs) ==
    LET k == IF \E i \in 1..Len(s) : s[i] \notin cs
             THEN CHOOSE i \in 1..Len(s) :
                      s[i] \notin cs /\ \A j \in 1..(i-1) : s[j] \in cs
             ELSE Len(s) + 1
    IN  SubSeq(s, k, Len(s))

\* s.rstrip(chars): drop the longest suffix made of characters of cs
RStrip(s, cs) ==
    LET k == IF \E i \in 1..Len(s) : s[i] \notin cs
             THEN CHOOSE i \in 1..Len(s) :
                      s[i] \notin cs /\ \A j \in (i+1)..Len(s) : s[j] \in cs
             ELSE 0
    IN  SubSeq(s, 1, k)

\* s.strip(chars)
Strip(s, cs) == LStrip(RStrip(s, cs), cs)

\* s.startswith(p)
StartsWith(s, p) == Len(s) >= Len(p) /\ SubSeq(s, 1, Len(p)) = p

\* s.find(p), 1-based; 0 when p does not occur
Find(s, p) ==
    LET hits == {i \in 1..(Len(s) - Len(p) + 1) : SubSeq(s, i, i + Len(p) - 1) = p}
    IN  IF hits = {} THEN 0 ELSE CHOOSE i \in hits : \A j \in hits : i <= j

\* p in s
Contains(s, p) == Find(s, p) # 0

\* s.split(sep): cut at every occurrence of sep, leftmost first, empty pieces kept
RECURSIVE Split(_, _)
Split(s, sep) ==
    LET i == Find(s, sep)
    IN  IF i = 0 THEN <<s>>
        ELSE <<SubSeq(s, 1, i - 1)>> \o Split(SubSeq(s, i + Len(sep), Len(s)), sep)

----------------------------------------------------------------------------
\* TextFormatter.save_as_docx

Newline  == <<"\n">>
BoldMark == <<"*", "*">>

\* text.split('\n') with every piece kept but the last
SplitTextDropLast(t) ==
    LET ps == Split(t, Newline) IN SubSeq(ps, 1, Len(ps) - 1)

\* paragraphs = text.split('\n')
SplitText(t) == Split(t, Newline)

\* doc.add_paragraph(): a paragraph of the default style without runs
EmptyParagraph == [style |-> "Normal", level |-> 0, title |-> <<>>, runs |-> <<>>]

\* the number of leading '#' without the clamp
HeadingLevelUnclamped(line) == Len(line) - Len(LStrip(line, {"#"}))

\* level = len(line) - len(line.lstrip('#')), passed on as min(level, 9)
HeadingLevel(line) ==
    LET level == Len(line) - Len(LStrip(line, {"#"}))
    IN  IF level < 9 THEN level ELSE 9

\* title = line.lstrip('#').strip()
HeadingTitle(line) == Strip(LStrip(line, {"#"}), Whitespace)

\* doc.add_heading(title, level=min(level, 9))
Heading(line) ==
    [style |-> "Heading", level |-> HeadingLevel(line), title |-> HeadingTitle(line),
     runs |-> <<>>]

\* line.strip().startswith(('- ', '* '))
IsListItem(line) ==
    LET s == Strip(line, Whitespace)
    IN  StartsWith(s, <<"-", " ">>) \/ StartsWith(s, <<"*", " ">>)

\* text = line.lstrip('- *').strip(): lstrip takes a SET of characters
ListItemText(line) == Strip(LStrip(line, {"-", " ", "*"}), Whitespace)

\* the runs of a list item: split on '**', odd 0-based indices bold
BulletRuns(t) ==
    IF Contains(t, BoldMark)
    THEN LET parts == Split(t, BoldMark)
         IN  [i \in 1..Len(parts) |-> [text |-> parts[i], bold |-> ((i - 1) % 2 = 1)]]
    ELSE <<[text |-> t, bold |-> FALSE]>>

\* p = doc.add_paragraph(style='List Bullet') and its runs
Bullet(line) ==
    [style |-> "List Bullet", level |-> 0, title |-> <<>>,
     runs |-> BulletRuns(ListItemText(line))]

\* the runs of a paragraph with the bold flag on the even 0-based indices
ParagraphRunsEvenBold(line) ==
    IF Contains(line, BoldMark)
    THEN LET parts == Split(line, BoldMark)
         IN  [i \in 1..Len(parts) |-> [text |-> parts[i], bold |-> ((i - 1) % 2 = 0)]]
    ELSE <<[text |-> line, bold |-> FALSE]>>

\* the runs of a regular paragraph: split on '**', odd 0-based indices bold
ParagraphRuns(line) ==
    IF Contains(line, BoldMark)
    THEN LET parts == Split(line, BoldMark)
         IN  [i \in 1..Len(parts) |-> [text |-> parts[i], bold |-> ((i - 1) % 2 = 1)]]
    ELSE <<[text |-> line, bold |-> FALSE]>>

\* p = doc.add_paragraph() and its runs
Paragraph(line) ==
    [style |-> "Normal", level |-> 0, title |-> <<>>, runs |-> ParagraphRuns(line)]

\* line = line.rstrip() of the line the loop is at
CurLine == RStrip(paragraphs[li + 1], Whitespace)

\* ---- the texts save_as_docx is run on

Alphabet == {"#", "-", "*", " ", "a", "\n"}
SmallTexts == UNION {[1..k -> Alphabet] : k \in 0..MaxLen}

Hashes(n) == [i \in 1..n |-> "#"]
HeadingTails == {<<>>, <<" ", "T">>, <<"T", " ">>, <<" ", "-", " ", "T">>, <<" ", "#">>}
HeadingTexts == {Hashes(n) \o t : n \in 1..MaxHashes, t \in HeadingTails}

Words == UNION {[1..k -> {"a", "b"}] : k \in 1..MaxWord}
BoldBulletTexts ==
    {<<m, " ">> \o BoldMark \o B \o BoldMark \o <<" ">> \o R :
        m \in {"-", "*"}, B \in Words, R \in Words}

Frags == {<<>>, <<"a">>, <<" ", "b">>, <<"*">>}
RECURSIVE JoinBold(_)
JoinBold(fs) ==
    IF Len(fs) = 1 THEN fs[1] ELSE fs[1] \o BoldMark \o JoinBold(Tail(fs))
ParagraphTexts == {JoinBold(fs) : fs \in UNION {[1..k -> Frags] : k \in 1..MaxFrags}}

\* "# Lecture 1\n- point one\n- **point two**\n"
LectureText ==
    <<"#", " ", "L", "e", "c", "t", "u", "r", "e", " ", "1", "\n", "-", " ", "p", "o", "i", "n", "t", " ", "o", "n", "e", "\n", "-", " ", "*", "*", "p", "o", "i", "n", "t", " ", "t", "w", "o", "*", "*", "\n">>
\* "- **Important** point"
ImportantText ==
    <<"-", " ", "*", "*", "I", "m", "p", "o", "r", "t", "a", "n", "t", "*", "*", " ", "p", "o", "i", "n", "t">>
\* "########## Too Deep"
TooDeepText ==
    <<"#", "#", "#", "#", "#", "#", "#", "#", "#", "#", " ", "T", "o", "o", " ", "D", "e", "e", "p">>
\* "\n\n\n"
ThreeNewlines == <<"\n", "\n", "\n">>
ScenarioTexts == {LectureText, ImportantText, TooDeepText, ThreeNewlines}

DocxTexts ==
    SmallTexts \cup HeadingTexts \cup BoldBulletTexts \cup ParagraphTexts \cup ScenarioTexts

\* ---- the steps of save_as_docx

DocxInit ==
    /\ text \in DocxTexts
    /\ paragraphs = <<>>
    /\ li = 0
    /\ doc = <<>>
    /\ pcD = "start"
    /\ outFile = "absent"

DocxIdle ==
    /\ text = <<>>
    /\ paragraphs = <<>>
    /\ li = 0
    /\ doc = <<>>
    /\ pcD = "idle"
    /\ outFile = "absent"

\* doc = Document(); paragraphs = text.split('\n')
SplitLines ==
    /\ pcD = "start"
    /\ paragraphs' = SplitText(text)
    /\ pcD' = "loop"
    /\ UNCHANGED <<text, li, doc, outFile, fmtVars, mmVars, procVars>>

\* if not line: doc.add_paragraph(); continue
BlankLine ==
    /\ pcD = "loop" /\ li < Len(paragraphs)
    /\ CurLine = <<>>
    /\ doc' = Append(doc, EmptyParagraph)
    /\ li' = li + 1
    /\ UNCHANGED <<text, paragraphs, pcD, outFile, fmtVars, mmVars, procVars>>

\* if line.startswith('#'): doc.add_heading(...); continue
HeaderLine ==
    /\ pcD = "loop" /\ li < Len(paragraphs)
    /\ CurLine # <<>>
    /\ StartsWith(CurLine, <<"#">>)
    /\ doc' = Append(doc, Heading(CurLine))
    /\ li' = li + 1
    /\ UNCHANGED <<text, paragraphs, pcD, outFile, fmtVars, mmVars, procVars>>

\* if line.strip().startswith(('- ', '* ')): bulleted paragraph; continue
ListItem ==
    /\ pcD = "loop" /\ li < Len(paragraphs)
    /\ CurLine # <<>>
    /\ ~StartsWith(CurLine, <<"#">>)
    /\ IsListItem(CurLine)
    /\ doc' = Append(doc, Bullet(CurLine))
    /\ li' = li + 1
    /\ UNCHANGED <<text, paragraphs, pcD, outFile, fmtVars, mmVars, procVars>>

\* otherwise: a regular paragraph
RegularParagraph ==
    /\ pcD = "loop" /\ li < Len(paragraphs)
    /\ CurLine # <<>>
    /\ ~StartsWith(CurLine, <<"#">>)
    /\ ~IsListItem(CurLine)
    /\ doc' = Append(doc, Paragraph(CurLine))
    /\ li' = li + 1
    /\ UNCHANGED <<text, paragraphs, pcD, outFile, fmtVars, mmVars, procVars>>

\* the for loop is exhausted
LoopEnd ==
    /\ pcD = "loop" /\ li = Len(paragraphs)
    /\ pcD' = "save"
    /\ UNCHANGED <<text, paragraphs, li, doc, outFile, fmtVars, mmVars, procVars>>

\* doc.save(output_path) succeeds
SaveOk ==
    /\ pcD = "save"
    /\ outFile' = "complete"
    /\ pcD' = "returned"
    /\ UNCHANGED <<text, paragraphs, li, doc, fmtVars, mmVars, procVars>>

\* doc.save(output_path) raises: the except clause logs and re-raises. The
\* library opens output_path for writing and writes the package part by part,
\* so the failure comes before the file is created or leaves what was written.
SaveFail ==
    /\ pcD = "save"
    /\ outFile' \in {"absent", "partial"}
    /\ pcD' = "raised"
    /\ UNCHANGED <<text, paragraphs, li, doc, fmtVars, mmVars, procVars>>

DocxNext ==
    \/ SplitLines
    \/ BlankLine
    \/ HeaderLine
    \/ ListItem
    \/ RegularParagraph
    \/ LoopEnd
    \/ SaveOk
    \/ SaveFail

----------------------------------------------------------------------------
\* TextFormatter.format_with_llm: the cleanup of the decoded text (lines 83-100)

\* most pieces a decoded text is assembled from
MaxPieces == 4

OpenTag  == <<"<", "t", "h", "i", "n", "k", ">">>
CloseTag == <<"<", "/", "t", "h", "i", "n", "k", ">">>

\* re.I: the patterns match letters of either case
Lower(c) ==
    CASE c = "T" -> "t" [] c = "H" -> "h" [] c = "I" -> "i"
      [] c = "N" -> "n" [] c = "K" -> "k" [] OTHER -> c
LowerSeq(s) == [i \in 1..Len(s) |-> Lower(s[i])]

\* where the leftmost match of <think>.*?</think> starts and ends (re.S: '.'
\* matches newlines too); <<0, 0>> when there is none. The match starts at the
\* first opening tag and, being lazy, ends with the first closing tag after it.
PairedMatch(s) ==
    LET l == LowerSeq(s)
        i == Find(l, OpenTag)
        j == IF i = 0 THEN 0
             ELSE Find(SubSeq(l, i + Len(OpenTag), Len(l)), CloseTag)
    IN  IF i = 0 \/ j = 0 THEN <<0, 0>>
        ELSE <<i, i + Len(OpenTag) + (j - 1) + Len(CloseTag) - 1>>

\* re.search(r"<think>.*?</think>", formatted_text, flags=re.I | re.S)
HasPaired(s) == PairedMatch(s)[1] # 0

\* re.sub(r"<think>.*?</think>", "", formatted_text, flags=re.I | re.S):
\* one left-to-right pass over the non-overlapping matches
RECURSIVE RemovePaired(_)
RemovePaired(s) ==
    LET m == PairedMatch(s)
    IN  IF m[1] = 0 THEN s
        ELSE SubSeq(s, 1, m[1] - 1) \o RemovePaired(SubSeq(s, m[2] + 1, Len(s)))

\* re.sub(r"</?think>", "", formatted_text, flags=re.I): one left-to-right pass
RECURSIVE RemoveLone(_)
RemoveLone(s) ==
    IF s = <<>> THEN <<>>
    ELSE IF StartsWith(LowerSeq(s), OpenTag)
         THEN RemoveLone(SubSeq(s, Len(OpenTag) + 1, Len(s)))
    ELSE IF StartsWith(LowerSeq(s), CloseTag)
         THEN RemoveLone(SubSeq(s, Len(CloseTag) + 1, Len(s)))
    ELSE <<s[1]>> \o RemoveLone(Tail(s))

\* the decoded texts: concatenations of at most MaxPieces pieces
Pieces ==
    {OpenTag, CloseTag, <<"<", "T", "H", "I", "N", "K", ">">>, <<"a">>, <<" ">>, <<"\n">>}
RECURSIVE Concat(_)
Concat(ps) == IF ps = <<>> THEN <<>> ELSE ps[1] \o Concat(Tail(ps))
DecodedTexts == {Concat(ps) : ps \in UNION {[1..k -> Pieces] : k \in 0..MaxPieces}}

FmtInit ==
    /\ formatted_text \in DecodedTexts
    /\ pcF = "decoded"

FmtIdle ==
    /\ formatted_text = <<>>
    /\ pcF = "idle"

\* the if branch: a paired span exists, every paired span is removed
SubPaired ==
    /\ pcF = "decoded"
    /\ HasPaired(formatted_text)
    /\ formatted_text' = RemovePaired(formatted_text)
    /\ pcF' = "strip"
    /\ UNCHANGED <<docxVars, mmVars, procVars>>

\* the else branch: no paired span, the lone tags are removed
SubLone ==
    /\ pcF = "decoded"
    /\ ~HasPaired(formatted_text)
    /\ formatted_text' = RemoveLone(formatted_text)
    /\ pcF' = "strip"
    /\ UNCHANGED <<docxVars, mmVars, procVars>>

\* formatted_text = formatted_text.strip(); return formatted_text
StripAndReturn ==
    /\ pcF = "strip"
    /\ formatted_text' = Strip(formatted_text, Whitespace)
    /\ pcF' = "returned"
    /\ UNCHANGED <<docxVars, mmVars, procVars>>

FmtNext ==
    \/ SubPaired
    \/ SubLone
    \/ StripAndReturn

----------------------------------------------------------------------------
\* ModelManager.get_instance, called by TextFormatter.__init__

\* number of threads that construct a TextFormatter
NThreads == 3
Threads == 1..NThreads

MMInit ==
    /\ instance = 0
    /\ loads = 0
    /\ pcM = [t \in Threads |-> "check"]
    /\ loaded = [t \in Threads |-> 0]
    /\ got = [t \in Threads |-> 0]

MMIdle ==
    /\ instance = 0
    /\ loads = 0
    /\ pcM = [t \in Threads |-> "idle"]
    /\ loaded = [t \in Threads |-> 0]
    /\ got = [t \in Threads |-> 0]

\* if cls._instance is None:
CheckInstance(t) ==
    /\ pcM[t] = "check"
    /\ pcM' = [pcM EXCEPT ![t] = IF instance = 0 THEN "load" ELSE "ret"]
    /\ UNCHANGED <<instance, loads, loaded, got, docxVars, fmtVars, procVars>>

\* cls._load_model(): a new model object each time it runs
LoadModel(t) ==
    /\ pcM[t] = "load"
    /\ loads' = loads + 1
    /\ loaded' = [loaded EXCEPT ![t] = loads + 1]
    /\ pcM' = [pcM EXCEPT ![t] = "assign"]
    /\ UNCHANGED <<instance, got, docxVars, fmtVars, procVars>>

\* cls._instance = <the loaded model>
AssignInstance(t) ==
    /\ pcM[t] = "assign"
    /\ instance' = loaded[t]
    /\ pcM' = [pcM EXCEPT ![t] = "ret"]
    /\ UNCHANGED <<loads, loaded, got, docxVars, fmtVars, procVars>>

\* return cls._instance
ReturnInstance(t) ==
    /\ pcM[t] = "ret"
    /\ got' = [got EXCEPT ![t] = instance]
    /\ pcM' = [pcM EXCEPT ![t] = "done"]
    /\ UNCHANGED <<instance, loads, loaded, docxVars, fmtVars, procVars>>

MMNext ==
    \/ \E t \in Threads : CheckInstance(t)
    \/ \E t \in Threads : LoadModel(t)
    \/ \E t \in Threads : AssignInstance(t)
    \/ \E t \in Threads : ReturnInstance(t)

----------------------------------------------------------------------------
\* app.process: the POST /process handler

\* markdown: markdown_content is given and not empty; filename: the upload has one
Requests ==
    [markdown : BOOLEAN, preview : {"true", "none"},
     output_format : {"md", "markdown", "docx"}, filename : BOOLEAN]

ProcInit ==
    /\ req \in Requests
    /\ pcP = "formatter"
    /\ tmpDir = "none"
    /\ released = 0
    /\ responses = <<>>
    /\ failed = FALSE
    /\ escaped = FALSE

ProcIdle ==
    /\ req = [markdown |-> FALSE, preview |-> "none", output_format |-> "docx",
              filename |-> FALSE]
    /\ pcP = "idle"
    /\ tmpDir = "none"
    /\ released = 0
    /\ responses = <<>>
    /\ failed = FALSE
    /\ escaped = FALSE

\* a raise inside the outer try only / inside the inner try
RaiseOuter == /\ failed' = TRUE /\ pcP' = "outer_except"
RaiseInner == /\ failed' = TRUE /\ pcP' = "inner_except"

\* formatter = TextFormatter(): loading the model may raise
NewFormatter ==
    /\ pcP = "formatter"
    /\ \E ok \in BOOLEAN :
          IF ok THEN pcP' = "mkdtemp" /\ UNCHANGED failed ELSE RaiseOuter
    /\ UNCHANGED <<req, tmpDir, released, responses, escaped, docxVars, fmtVars, mmVars>>

\* tmp_dir = tempfile.mkdtemp()
MakeTmpDir ==
    /\ pcP = "mkdtemp"
    /\ \E ok \in BOOLEAN :
          IF ok THEN pcP' = "content" /\ tmpDir' = "exists" /\ UNCHANGED failed
          ELSE RaiseOuter /\ UNCHANGED tmpDir
    /\ UNCHANGED <<req, released, responses, escaped, docxVars, fmtVars, mmVars>>

\* if markdown_content: formatted = markdown_content
UseMarkdown ==
    /\ pcP = "content"
    /\ req.markdown
    /\ pcP' = "preview"
    /\ UNCHANGED <<req, tmpDir, released, responses, failed, escaped,
                   docxVars, fmtVars, mmVars>>

\* in_path = Path(tmp_dir) / file.filename; content = await file.read();
\* in_path.write_bytes(content): a TypeError without a filename, or an I/O error
WriteUpload ==
    /\ pcP = "content"
    /\ ~req.markdown
    /\ \E ok \in BOOLEAN :
          IF ok /\ req.filename THEN pcP' = "ocr" /\ UNCHANGED failed ELSE RaiseInner
    /\ UNCHANGED <<req, tmpDir, released, responses, escaped, docxVars, fmtVars, mmVars>>

\* ocr = OCRProcessor(); extracted_text = ocr.process_image(str(in_path)):
\* process_image logs and re-raises whatever its pipeline raises
RunOcr ==
    /\ pcP = "ocr"
    /\ \E ok \in BOOLEAN :
          IF ok THEN pcP' = "format" /\ UNCHANGED failed ELSE RaiseInner
    /\ UNCHANGED <<req, tmpDir, released, responses, escaped, docxVars, fmtVars, mmVars>>

\* formatted = formatter.format_with_llm(extracted_text)
RunFormatter ==
    /\ pcP = "format"
    /\ \E ok \in BOOLEAN :
          IF ok THEN pcP' = "preview" /\ UNCHANGED failed ELSE RaiseInner
    /\ UNCHANGED <<req, tmpDir, released, responses, escaped, docxVars, fmtVars, mmVars>>

\* preview == "true" and (output_format == "md" or output_format == "markdown")
WantsPreview == req.preview = "true" /\ req.output_format \in {"md", "markdown"}

\* return JSONResponse({"text": formatted}): leaves the inner try by return, so
\* its except clause does not run
ReturnPreview ==
    /\ pcP = "preview"
    /\ WantsPreview
    /\ responses' = Append(responses, "preview")
    /\ pcP' = "done"
    /\ UNCHANGED <<req, tmpDir, released, failed, escaped, docxVars, fmtVars, mmVars>>

\* save_as_markdown / save_as_docx, then the checks of lines 68-71: the save
\* raises, or the file is missing or empty (an empty formatted text saved as
\* Markdown), or it is there with content
SaveOutput ==
    /\ pcP = "preview"
    /\ ~WantsPreview
    /\ \E outcome \in {"raises", "missing", "empty", "written"} :
          IF outcome = "written" THEN pcP' = "respond" /\ UNCHANGED failed ELSE RaiseInner
    /\ UNCHANGED <<req, tmpDir, released, responses, escaped, docxVars, fmtVars, mmVars>>

\* bg = BackgroundTask(shutil.rmtree, tmp_dir, True); return FileResponse(..., background=bg)
ReturnFile ==
    /\ pcP = "respond"
    /\ tmpDir' = "scheduled"
    /\ released' = released + 1
    /\ responses' = Append(responses, "file")
    /\ pcP' = "done"
    /\ UNCHANGED <<req, failed, escaped, docxVars, fmtVars, mmVars>>

\* except Exception (inner): shutil.rmtree(tmp_dir), whose own failure is only
\* logged; then raise
InnerExcept ==
    /\ pcP = "inner_except"
    /\ \E ok \in BOOLEAN : tmpDir' = IF ok THEN "removed" ELSE tmpDir
    /\ released' = released + 1
    /\ pcP' = "outer_except"
    /\ UNCHANGED <<req, responses, failed, escaped, docxVars, fmtVars, mmVars>>

\* the outer handler missing: the exception leaves process
OuterExceptMissing ==
    /\ pcP = "outer_except"
    /\ escaped' = TRUE
    /\ pcP' = "done"
    /\ UNCHANGED <<req, tmpDir, released, responses, failed, docxVars, fmtVars, mmVars>>

\* except Exception (outer): return JSONResponse(status_code=500, ...)
OuterExcept ==
    /\ pcP = "outer_except"
    /\ responses' = Append(responses, "error500")
    /\ pcP' = "done"
    /\ UNCHANGED <<req, tmpDir, released, failed, escaped, docxVars, fmtVars, mmVars>>

ProcNext ==
    \/ NewFormatter
    \/ MakeTmpDir
    \/ UseMarkdown
    \/ WriteUpload
    \/ RunOcr
    \/ RunFormatter
    \/ ReturnPreview
    \/ SaveOutput
    \/ ReturnFile
    \/ InnerExcept
    \/ OuterExcept

----------------------------------------------------------------------------
\* The specifications: one per component, the others idle.

InitDocx == DocxInit /\ FmtIdle /\ MMIdle /\ ProcIdle
InitFmt  == DocxIdle /\ FmtInit /\ MMIdle /\ ProcIdle
InitMM   == DocxIdle /\ FmtIdle /\ MMInit /\ ProcIdle
InitProc == DocxIdle /\ FmtIdle /\ MMIdle /\ ProcInit

SpecDocx == InitDocx /\ [][DocxNext]_vars
SpecFmt  == InitFmt /\ [][FmtNext]_vars
SpecMM   == InitMM /\ [][MMNext]_vars
SpecProc == InitProc /\ [][ProcNext]_vars

----------------------------------------------------------------------------
\* Properties of save_as_docx (SpecDocx). Element i of doc is the block the
\* loop emitted for paragraphs[i].

\* the loop has consumed every line
Rendered == pcD \in {"save", "returned", "raised"}

ImportantSpan == <<"I", "m", "p", "o", "r", "t", "a", "n", "t">>
PointSpan     == <<"p", "o", "i", "n", "t">>
PointTwoSpan  == <<"p", "o", "i", "n", "t", " ", "t", "w", "o">>
LectureTitle  == <<"L", "e", "c", "t", "u", "r", "e", " ", "1">>
BoldSpans     == Words \cup {ImportantSpan, PointSpan}

\* "<marker> **B** R"
BoldBulletLine(m, B, R) == <<m, " ">> \o BoldMark \o B \o BoldMark \o <<" ">> \o R

\* C1: a bullet line "- **B** R" or "* **B** R", B and R free of "**", is emitted
\* as a bulleted paragraph whose runs are exactly ("", plain), (B, bold),
\* (" R", plain).
C1_BoldBulletRuns ==
    \A i \in 1..Len(doc) : \A m \in {"-", "*"} : \A B \in BoldSpans : \A R \in BoldSpans :
        paragraphs[i] = BoldBulletLine(m, B, R) =>
            /\ doc[i].style = "List Bullet"
            /\ doc[i].runs = << [text |-> <<>>, bold |-> FALSE],
                                [text |-> B, bold |-> TRUE],
                                [text |-> <<" ">> \o R, bold |-> FALSE] >>

\* the bold runs of an element, in order
BoldRuns(el) == SelectSeq(el.runs, LAMBDA r : r.bold)

\* C2: "# Lecture 1\n- point one\n- **point two**\n" renders as one level-1
\* heading "Lecture 1" followed by exactly two bulleted paragraphs and nothing
\* else, the second with exactly one bold run, whose text is "point two".
C2_LectureDocument ==
    (Rendered /\ text = LectureText) =>
        /\ Len(doc) = 3
        /\ doc[1].style = "Heading" /\ doc[1].level = 1 /\ doc[1].title = LectureTitle
        /\ doc[2].style = "List Bullet"
        /\ doc[3].style = "List Bullet"
        /\ BoldRuns(doc[3]) = << [text |-> PointTwoSpan, bold |-> TRUE] >>

\* the text is made of newlines only
OnlyNewlines(t) == \A k \in 1..Len(t) : t[k] = "\n"

LeadingHashes(s) == Cardinality({k \in 1..Len(s) : \A j \in 1..k : s[j] = "#"})

\* C4: a line that begins with '#' is emitted as a heading whose level is the
\* number of leading '#' clamped to 1..9 and whose title is the line without
\* its leading '#', stripped; no such line becomes a bullet or a paragraph.
C4_HeadingLevelClamped ==
    \A i \in 1..Len(doc) :
        LET n == LeadingHashes(paragraphs[i])
        IN  n >= 1 =>
                /\ doc[i].style = "Heading"
                /\ doc[i].level = (IF n > 9 THEN 9 ELSE n)
                /\ doc[i].level \in 1..9
                /\ doc[i].title =
                       Strip(SubSeq(paragraphs[i], n + 1, Len(paragraphs[i])), Whitespace)

\* C4: a line of ten or more '#' has been rendered, at level 9
C4_Witness ==
    /\ pcD = "returned"
    /\ \E i \in 1..Len(doc) :
          /\ LeadingHashes(paragraphs[i]) >= 10
          /\ doc[i].style = "Heading" /\ doc[i].level = 9
          /\ doc[i].title # <<>>

\* C7: when save_as_docx raises out of doc.save, no partially written file is
\* at output_path.
C7_NoPartialFileOnFailure == pcD = "raised" => outFile = "absent"

\* a paragraph line: not empty once right-stripped, not starting with '#', and
\* its stripped form not starting with "- " or "* "
IsParagraphLine(raw) ==
    LET line == RStrip(raw, Whitespace)
        s    == Strip(raw, Whitespace)
    IN  /\ line # <<>>
        /\ line[1] # "#"
        /\ ~(Len(s) >= 2 /\ s[1] \in {"-", "*"} /\ s[2] = " ")

\* the number of "**" met scanning left to right without overlap
RECURSIVE CountBoldMarks(_)
CountBoldMarks(s) ==
    IF Len(s) < 2 THEN 0
    ELSE IF s[1] = "*" /\ s[2] = "*" THEN 1 + CountBoldMarks(SubSeq(s, 3, Len(s)))
    ELSE CountBoldMarks(Tail(s))

\* the line with every "**" removed, scanning left to right
RECURSIVE WithoutBoldMarks(_)
WithoutBoldMarks(s) ==
    IF Len(s) < 2 THEN s
    ELSE IF s[1] = "*" /\ s[2] = "*" THEN WithoutBoldMarks(SubSeq(s, 3, Len(s)))
    ELSE <<s[1]>> \o WithoutBoldMarks(Tail(s))

RunTexts(el) == [k \in 1..Len(el.runs) |-> el.runs[k].text]

\* C10: a paragraph line is emitted as one run per fragment of the
\* right-stripped line split on "**", empty fragments included, in order; the
\* fragment at an even 0-based index is plain and at an odd one bold, whatever
\* the parity of the number of "**"; the runs' texts concatenated are the line
\* without its "**".
C10_ParagraphRunsAlternate ==
    \A i \in 1..Len(doc) :
        IsParagraphLine(paragraphs[i]) =>
            LET line == RStrip(paragraphs[i], Whitespace)
                r    == doc[i].runs
            IN  /\ doc[i].style = "Normal"
                /\ Len(r) = CountBoldMarks(line) + 1
                /\ \A k \in 1..Len(r) : r[k].bold = ((k - 1) % 2 = 1)
                /\ \A k \in 1..Len(r) : ~Contains(r[k].text, BoldMark)
                /\ \A k \in 1..(Len(r) - 1) : ~Contains(r[k].text \o <<"*">>, BoldMark)
                /\ JoinBold(RunTexts(doc[i])) = line
                /\ Concat(RunTexts(doc[i])) = WithoutBoldMarks(line)

\* C10: an unterminated "**" at the start of a paragraph has been rendered: an
\* empty plain run, then a bold one
C10_Witness ==
    /\ pcD = "returned"
    /\ \E i \in 1..Len(doc) :
          /\ IsParagraphLine(paragraphs[i])
          /\ Len(doc[i].runs) = 2
          /\ doc[i].runs[1] = [text |-> <<>>, bold |-> FALSE]
          /\ doc[i].runs[2].bold /\ doc[i].runs[2].text # <<>>

----------------------------------------------------------------------------
\* Properties of format_with_llm (SpecFmt)

\* C8: the text format_with_llm returns contains neither "<think>" nor
\* "</think>", and has no leading or trailing whitespace.
C8_NoThinkTagReturned ==
    pcF = "returned" =>
        /\ ~Contains(formatted_text, OpenTag)
        /\ ~Contains(formatted_text, CloseTag)
        /\ formatted_text # <<>> =>
               /\ formatted_text[1] \notin Whitespace
               /\ formatted_text[Len(formatted_text)] \notin Whitespace

----------------------------------------------------------------------------
\* Properties of ModelManager.get_instance (SpecMM)

\* C6: _load_model runs at most once, and all callers get the same instance.
C6_ModelLoadedOnce ==
    /\ loads <= 1
    /\ \A t \in Threads : \A u \in Threads :
          (pcM[t] = "done" /\ pcM[u] = "done") => got[t] = got[u]

----------------------------------------------------------------------------
\* Properties of the /process handler (SpecProc)

\* C5: a request that created its temporary directory has released it (removed
\* it or scheduled its removal) exactly once when the handler is done, and
\* never more than once.
C5_TmpDirReleasedOnce ==
    /\ released <= 1
    /\ (pcP = "done" /\ tmpDir # "none") => released = 1

\* C9: a request whose workflow raised gets exactly one response, the 500
\* error; a request that did not raise gets exactly one file or preview
\* response; no exception leaves the handler.
C9_SingleFailureResponse ==
    /\ ~escaped
    /\ Len(responses) <= 1
    /\ pcP # "done" => responses = <<>>
    /\ pcP = "done" =>
          /\ Len(responses) = 1
          /\ failed <=> responses[1] = "error500"

\* C9: a step inside the inner try raised and the handler answered 500
C9_Witness ==
    /\ pcP = "done"
    /\ failed
    /\ tmpDir = "removed"
    /\ responses = <<"error500">>

====
